---------------------------- MODULE Spec2Model ----------------------------
(***************************************************************************)
(* The task CRUD service of the repository, in its three variants:         *)
(*   "memory"     src/fastapi/main.py            (the list my_tasks)       *)
(*   "postgresql" src/FastAPI With Sqlalcehmy/Postgresql/app               *)
(*   "testcases"  src/APIWithTestCases/fastapiEx                           *)
(* One request is served at a time: it is received (the session            *)
(* dependency get_db runs up to its yield), the body is validated and the  *)
(* handler runs, and the request is finished (get_db runs from its yield   *)
(* to its end, the response is sent).                                      *)
(*                                                                         *)
(* Strings are sequences of one-letter strings.  JSON values that are not  *)
(* strings are one-element sequences whose element is not a letter.        *)
(***************************************************************************)
EXTENDS Integers, Sequences, FiniteSets, TLC

\* issued: the ids successful creates have returned; deleted: the ids successful
\* deletes have removed (history, for the claims about all earlier requests)
\* threads: the requests of the in-memory variant that worker threads are serving
\* at the same time (used by ConcSpec only; Spec serves one request at a time)
VARIABLES variant, my_tasks, table, next_id, now, pc, req, resp, outcome, session,
          issued, deleted, threads

vars == <<variant, my_tasks, table, next_id, now, pc, req, resp, outcome, session,
          issued, deleted, threads>>

-----------------------------------------------------------------------------
(* Bounds of the model *)

\* rows the relational table is ever given (the serial id stops there)
MaxCreates == 2
\* longest my_tasks the in-memory create still appends to
MaxLen == 3
\* top of the range the in-memory create draws ids from (10000 - 1 in the code)
MaxRandId == 4

(* Program constants *)
RandLo == 3
DefaultLimit == 10
DefaultSkip == 0
HTTP_200_OK == 200
HTTP_201_CREATED == 201
HTTP_204_NO_CONTENT == 204
HTTP_404_NOT_FOUND == 404

-----------------------------------------------------------------------------
(* JSON values *)

\* a key that the body (or the stored dict) does not have
Unset == <<"<unset>">>
\* JSON null, Python None, SQL NULL
None == <<"<null>">>
\* a JSON object where a string or a boolean is expected
Object == <<"<object>">>
True == <<"true">>
False == <<"false">>

IsBool(v) == v \in {True, False}
IsStr(v) == v \notin {Unset, None, Object, True, False}

\* the strings requests carry
NameA == <<"a", "b">>
NameB == <<"b">>
Desc == <<"d">>
Test1 == <<"t", "1">>
Test2 == <<"t", "2">>

\* a JSON body: the keys the models declare, and the keys id and created_at that
\* no request model declares (0: the body does not carry the key)
Body(n, d, t, c) ==
    [name |-> n, description |-> d, task |-> t, completed |-> c,
     id |-> 0, created_at |-> 0]

\* the body b with an id key and a created_at key added
WithKeys(b, id, ts) == [b EXCEPT !.id = id, !.created_at = ts]
NoBody == Body(Unset, Unset, Unset, Unset)

-----------------------------------------------------------------------------
(* Request validation: the pydantic models *)

\* class Task(BaseModel) of the in-memory variant: name: str, task: str, completed: bool = False
ValidTask(b) ==
    /\ IsStr(b.name)
    /\ IsStr(b.task)
    /\ (b.completed = Unset \/ IsBool(b.completed))

\* a TaskCreate that only asks for the key name, of whatever type
ValidTaskCreate_NameOnly(b) == b.name # Unset

\* TaskCreate(TaskBase): name: str, description: Optional[str] = None, completed: bool = False
ValidTaskCreate(b) ==
    /\ IsStr(b.name)
    /\ (b.description \in {Unset, None} \/ IsStr(b.description))
    /\ (b.completed = Unset \/ IsBool(b.completed))

\* TaskUpdate: every field Optional with default None
ValidTaskUpdate(b) ==
    /\ (b.name \in {Unset, None} \/ IsStr(b.name))
    /\ (b.description \in {Unset, None} \/ IsStr(b.description))
    /\ (b.completed \in {Unset, None} \/ IsBool(b.completed))

\* Task.dict() of the in-memory variant: the declared fields, defaults filled in
TaskDict(b) ==
    [name |-> b.name, task |-> b.task,
     completed |-> IF b.completed = Unset THEN False ELSE b.completed]

\* a TaskCreate whose description never reaches the dict
TaskCreateDict_NoDescription(b) ==
    [name |-> b.name, description |-> None,
     completed |-> IF b.completed = Unset THEN False ELSE b.completed]

\* TaskCreate.dict(): the declared fields, defaults filled in
TaskCreateDict(b) ==
    [name |-> b.name,
     description |-> IF b.description = Unset THEN None ELSE b.description,
     completed |-> IF b.completed = Unset THEN False ELSE b.completed]

\* a TaskUpdate that keeps the keys it does not declare (Config.extra = "allow")
UpdateKeys_AllowExtra(b) ==
    {k \in {"name", "description", "completed"} : b[k] # Unset}
      \cup {k \in {"id", "created_at"} : b[k] # 0}

\* TaskUpdate.dict(exclude_unset=True): the keys the body carries, of those the
\* model declares (pydantic drops the others)
UpdateKeys(b) == {k \in {"name", "description", "completed"} : b[k] # Unset}


-----------------------------------------------------------------------------
(* Responses *)

NoDetail == [msg |-> "", id |-> 0]

Response(status, data) == [status |-> status, detail |-> NoDetail, data |-> data]

\* raise HTTPException(status_code=404, detail=f"... {id} ...")
HTTPException(status, msg, id) ==
    [status |-> status, detail |-> [msg |-> msg, id |-> id], data |-> <<>>]

\* what the framework answers when the body fails validation
RequestValidationError == Response(422, <<>>)

\* what the framework answers when the handler raises anything but HTTPException
ServerError == Response(500, <<>>)

NoResp == Response(0, <<>>)

-----------------------------------------------------------------------------
(* Sequences *)

\* the first n elements of s (all of s when it is shorter, none when n <= 0)
Take(s, n) == SubSeq(s, 1, IF n < Len(s) THEN n ELSE Len(s))

\* s without its first n elements
Drop(s, n) == SubSeq(s, (IF n < 0 THEN 0 ELSE n) + 1, Len(s))

\* list.pop(): the last element goes, whatever the index
Pop_NoIndex(s, i) == SubSeq(s, 1, Len(s) - 1)

\* s without its element at index i: list.pop(i)
Pop(s, i) == SubSeq(s, 1, i - 1) \o SubSeq(s, i + 1, Len(s))

-----------------------------------------------------------------------------
(* The in-memory variant: src/fastapi/main.py *)

\* the list the module starts with: two dicts without a "completed" key
InitialTasks ==
    << [id |-> 1, name |-> Test1, task |-> Test1, completed |-> Unset],
       [id |-> 2, name |-> Test2, task |-> Test2, completed |-> Unset] >>

\* find_post_index returns None when the loop ends without a match
NoIndex == 0

\* a find_post_index that answers -1, the index of the last task, when the loop
\* ends without a match
find_post_index_LastWhenMissing(tasks, id) ==
    IF \E i \in 1..Len(tasks) : tasks[i].id = id
    THEN CHOOSE i \in 1..Len(tasks) :
            /\ tasks[i].id = id
            /\ \A j \in 1..(i - 1) : tasks[j].id # id
    ELSE Len(tasks)

\* a find_post_index that counts from one too far (enumerate(my_tasks, 1))
find_post_index_FromOne(tasks, id) ==
    IF \E i \in 1..Len(tasks) : tasks[i].id = id
    THEN 1 + CHOOSE i \in 1..Len(tasks) :
                /\ tasks[i].id = id
                /\ \A j \in 1..(i - 1) : tasks[j].id # id
    ELSE NoIndex

\* the index (from 1) of the first task of the list with this id
find_post_index(tasks, id) ==
    IF \E i \in 1..Len(tasks) : tasks[i].id = id
    THEN CHOOSE i \in 1..Len(tasks) :
            /\ tasks[i].id = id
            /\ \A j \in 1..(i - 1) : tasks[j].id # id
    ELSE NoIndex

\* randrange(3, 10000): any id of the range, whatever the list holds
RandomIds == RandLo..MaxRandId

\* task = new_task.dict(); task["id"] = ...
MemoryTask(b, id) == [id |-> id] @@ TaskDict(b)

MemoryNotFound(id) ==
    HTTPException(HTTP_404_NOT_FOUND, "Task not found with this id ", id)

\* delete_task: the list and the response
main_delete_task_result(tasks, id) ==
    LET index == find_post_index(tasks, id) IN
    IF index = NoIndex
    THEN [tasks |-> tasks, resp |-> MemoryNotFound(id), outcome |-> "HTTPException"]
    ELSE [tasks |-> Pop(tasks, index),
          resp |-> Response(HTTP_204_NO_CONTENT, <<>>), outcome |-> "return"]

\* an update_task that tests "if not index": index 0, the first task, counts as
\* not found
main_update_task_result_IfNotIndex(tasks, id, b) ==
    LET index == find_post_index(tasks, id) IN
    IF index = NoIndex \/ index = 1
    THEN [tasks |-> tasks, resp |-> MemoryNotFound(id), outcome |-> "HTTPException"]
    ELSE LET task == MemoryTask(b, id) IN
         [tasks |-> [tasks EXCEPT ![index] = task],
          resp |-> Response(HTTP_200_OK, <<task>>), outcome |-> "return"]

\* update_task: the list and the response
main_update_task_result(tasks, id, b) ==
    LET index == find_post_index(tasks, id) IN
    IF index = NoIndex
    THEN [tasks |-> tasks, resp |-> MemoryNotFound(id), outcome |-> "HTTPException"]
    ELSE LET task == MemoryTask(b, id) IN
         [tasks |-> [tasks EXCEPT ![index] = task],
          resp |-> Response(HTTP_200_OK, <<task>>), outcome |-> "return"]

-----------------------------------------------------------------------------
(* The relational variants: the table tasks of models.py *)

\* Column(..., nullable=False) on name and completed
NotNullOk(row) == row.name # None /\ row.completed # None

\* column LIKE pattern: % is any run of characters, _ is any one character
RECURSIVE Like(_, _)
Like(s, p) ==
    IF p = <<>> THEN s = <<>>
    ELSE IF Head(p) = "%"
         THEN Like(s, Tail(p)) \/ (s # <<>> /\ Like(Tail(s), p))
    ELSE IF s = <<>> THEN FALSE
    ELSE IF Head(p) = "_" THEN Like(Tail(s), Tail(p))
    ELSE Head(s) = Head(p) /\ Like(Tail(s), Tail(p))

\* models.Task.name.contains(search): name LIKE '%' || search || '%', the
\* wildcards of search not escaped
Contains(name, search) == Like(name, <<"%">> \o search \o <<"%">>)

\* .filter(models.Task.name.contains(search))
Filter(rows, search) == SelectSeq(rows, LAMBDA r : Contains(r.name, search))

\* .limit(limit).offset(skip).all(): SELECT ... LIMIT limit OFFSET skip, which
\* skips first and then keeps at most limit rows
LimitOffsetAll(rows, limit, skip) == Take(Drop(rows, skip), limit)

\* PostgreSQL refuses a negative LIMIT or OFFSET
LimitOffsetOk(limit, skip) == limit >= 0 /\ skip >= 0

\* .filter(models.Task.id == id).first(): the row, or None
NoRow == [id |-> 0]
first(rows, id) ==
    IF \E i \in 1..Len(rows) : rows[i].id = id
    THEN rows[CHOOSE i \in 1..Len(rows) :
                /\ rows[i].id = id
                /\ \A j \in 1..(i - 1) : rows[j].id # id]
    ELSE NoRow

\* the fields response_model=schemas.Task keeps
SchemaTask(row) ==
    [id |-> row.id, name |-> row.name, description |-> row.description,
     completed |-> row.completed]

\* create_task and get_task return the ORM object; the postgresql variant
\* declares response_model=schemas.Task on them, the testcases variant does not
Returned(v, row) == IF v = "postgresql" THEN SchemaTask(row) ELSE row

\* for key, value in updated_task.dict(exclude_unset=True).items(): setattr(task, key, value)
SetAttrs(row, b) ==
    [k \in DOMAIN row |-> IF k \in UpdateKeys(b) THEN b[k] ELSE row[k]]

\* the table with the row of this id replaced
ReplaceRow(rows, row) ==
    [i \in 1..Len(rows) |-> IF rows[i].id = row.id THEN row ELSE rows[i]]

\* db.delete(task); db.commit()
DeleteRow(rows, id) == SelectSeq(rows, LAMBDA r : r.id # id)

RouterNotFound(msg, id) == HTTPException(HTTP_404_NOT_FOUND, msg, id)

\* INSERT: the serial gives the id, the server default the timestamp
NewRow(b, id, ts) == [id |-> id, created_at |-> ts] @@ TaskCreateDict(b)

-----------------------------------------------------------------------------
(* The session dependency: get_db of database.py *)

Relational == {"postgresql", "testcases"}

NoSession ==
    [open |-> FALSE, in_txn |-> FALSE, close_calls |-> 0, rollback_calls |-> 0,
     raised |-> FALSE]

\* db = SessionLocal(): a session that has not begun a transaction
SessionLocal ==
    [open |-> TRUE, in_txn |-> FALSE, close_calls |-> 0, rollback_calls |-> 0,
     raised |-> FALSE]

\* db.rollback(): the transaction is given up, unless the call itself raises
rollback(s, raises) ==
    [s EXCEPT !.rollback_calls = @ + 1,
              !.in_txn = IF raises THEN @ ELSE FALSE,
              !.raised = @ \/ raises]

\* db.close(): the transaction is rolled back and the connection released,
\* unless the call itself raises
close(s, raises) ==
    [s EXCEPT !.close_calls = @ + 1,
              !.in_txn = IF raises THEN @ ELSE FALSE,
              !.open = IF raises THEN @ ELSE FALSE,
              !.raised = @ \/ raises]

\* the postgresql get_db with its except branch only printing
get_db_postgresql_NoRollback(s, exc, rollback_raises, close_raises) ==
    close(s, close_raises)

\* postgresql variant, from the yield on:
\*   except SQLAlchemyError: print; db.rollback()    finally: db.close()
get_db_postgresql(s, exc, rollback_raises, close_raises) ==
    IF exc = "SQLAlchemyError"
    THEN close(rollback(s, rollback_raises), close_raises)
    ELSE close(s, close_raises)

\* the testcases get_db with db.close() after the yield but outside a finally
get_db_testcases_NoFinally(s, exc, rollback_raises, close_raises) ==
    IF exc = "return" THEN close(s, close_raises) ELSE s

\* testcases variant, from the yield on:   finally: db.close()
get_db_testcases(s, exc, rollback_raises, close_raises) ==
    close(s, close_raises)

\* whether get_db lets the exception thrown into it go on: the except branch
\* of the postgresql variant ends without raising again
Reraised(v, exc) == ~(v = "postgresql" /\ exc = "SQLAlchemyError")

get_db(v, s, exc, rollback_raises, close_raises) ==
    IF v = "postgresql"
    THEN get_db_postgresql(s, exc, rollback_raises, close_raises)
    ELSE get_db_testcases(s, exc, rollback_raises, close_raises)

-----------------------------------------------------------------------------
(* Requests *)

ByIdOps == {"get_task", "delete_task", "update_task"}

Request(op, id, body, limit, skip, search) ==
    [op |-> op, id |-> id, body |-> body, limit |-> limit, skip |-> skip,
     search |-> search]

NoRequest == Request("none", 0, NoBody, DefaultLimit, DefaultSkip, <<>>)

\* the ids requests name: those the store can hold and one it never holds
MemoryIds == 1..(MaxRandId + 1)
RouterIds == 1..(MaxCreates + 1)

\* bodies sent to the in-memory variant: three that fit class Task (one of them
\* with an id and a created_at key), three that do not
MemoryBodies ==
    {Body(NameA, Unset, Test1, Unset), Body(NameB, Unset, Test1, True),
     WithKeys(Body(NameA, Unset, Test1, False), 1, 5)}
      \cup {Body(Unset, Unset, Test1, True), Body(NameA, Unset, Object, Unset),
            Body(NameB, Unset, Test1, Object)}

\* bodies sent to the relational variants
RouterBodies ==
    {Body(n, d, Unset, c) : n \in {Unset, NameA, NameB}, d \in {Unset, Desc},
                            c \in {Unset, True}}
      \cup {Body(NameA, None, Unset, False), Body(Unset, None, Unset, Unset),
            Body(Unset, Unset, Unset, False), Body(None, Unset, Unset, Unset),
            Body(Unset, Desc, Unset, None),
            WithKeys(Body(NameB, Unset, Unset, Unset), 2, 5)}
      \cup {Body(Object, Unset, Unset, Unset), Body(NameA, Object, Unset, True),
            Body(NameB, Desc, Unset, Object)}

Limits == {-1, 0, 1, DefaultLimit}
Skips == {-1, DefaultSkip, 1}
Searches == {<<>>, <<"a">>, <<"c">>, <<"_">>}

MemoryRequests ==
    {Request("get_tasks", 0, NoBody, DefaultLimit, DefaultSkip, <<>>)}
      \cup {Request("create_task", 0, b, DefaultLimit, DefaultSkip, <<>>) : b \in MemoryBodies}
      \cup {Request("delete_task", i, NoBody, DefaultLimit, DefaultSkip, <<>>) : i \in MemoryIds}
      \cup {Request("update_task", i, b, DefaultLimit, DefaultSkip, <<>>) :
                i \in MemoryIds, b \in MemoryBodies}

RouterRequests ==
    {Request("get_tasks", 0, NoBody, l, k, s) : l \in Limits, k \in Skips, s \in Searches}
      \cup {Request("create_task", 0, b, DefaultLimit, DefaultSkip, <<>>) : b \in RouterBodies}
      \cup {Request(op, i, NoBody, DefaultLimit, DefaultSkip, <<>>) :
                op \in {"get_task", "delete_task"}, i \in RouterIds}
      \cup {Request("update_task", i, b, DefaultLimit, DefaultSkip, <<>>) :
                i \in RouterIds, b \in RouterBodies}

\* the worker threads that run the handlers of src/fastapi/main.py (plain def
\* functions, which the framework runs in a thread pool): two are enough for
\* two requests in flight
Workers == {1, 2}

\* a worker's request: where the handler is (idle: no request; found: between
\* find_post_index and the statement that uses the index; done: ended), the
\* local variables id and index, how the handler ended, the id of the record it
\* removed or replaced (0: none), and whether another thread changed my_tasks
\* while this one was between the two statements (history)
Thread(at, op, id, index, result, victim, raced) ==
    [at |-> at, op |-> op, id |-> id, index |-> index, result |-> result,
     victim |-> victim, raced |-> raced]

NoThread == Thread("idle", "none", 0, NoIndex, "none", 0, FALSE)

\* the body model the route declares
ValidBody(v, r) ==
    CASE r.op = "create_task" -> IF v = "memory" THEN ValidTask(r.body) ELSE ValidTaskCreate(r.body)
      [] r.op = "update_task" -> IF v = "memory" THEN ValidTask(r.body) ELSE ValidTaskUpdate(r.body)
      [] OTHER -> TRUE

-----------------------------------------------------------------------------
(* The state machine *)

Init ==
    /\ variant \in {"memory"} \cup Relational
    /\ my_tasks = IF variant = "memory" THEN InitialTasks ELSE <<>>
    /\ table = <<>>
    /\ next_id = 1
    /\ now = 1
    /\ pc = "idle"
    /\ req = NoRequest
    /\ resp = NoResp
    /\ outcome = "none"
    /\ session = NoSession
    /\ issued = {}
    /\ deleted = {}
    /\ threads = [t \in Workers |-> NoThread]

\* A request arrives; in the relational variants the framework runs get_db up
\* to its yield.  A create is taken while the store has room for it.
Receive ==
    /\ pc = "idle"
    /\ req' \in IF variant = "memory" THEN MemoryRequests ELSE RouterRequests
    /\ req'.op = "create_task" =>
          IF variant = "memory" THEN Len(my_tasks) < MaxLen ELSE next_id <= MaxCreates
    /\ session' = IF variant = "memory" THEN NoSession ELSE SessionLocal
    /\ pc' = "handler"
    /\ UNCHANGED <<threads, variant, my_tasks, table, next_id, now, resp, outcome, issued, deleted>>

\* The body does not fit the model the route declares: the handler is not called
ValidationError ==
    /\ pc = "handler"
    /\ ~ValidBody(variant, req)
    /\ resp' = RequestValidationError
    /\ outcome' = "RequestValidationError"
    /\ pc' = "teardown"
    /\ UNCHANGED <<threads, variant, my_tasks, table, next_id, now, req, session, issued, deleted>>

Handles(v, op) == pc = "handler" /\ variant \in v /\ req.op = op /\ ValidBody(variant, req)

(* src/fastapi/main.py *)

\* a get_tasks that puts the newest task first with my_tasks.reverse()
main_get_tasks_Reverse ==
    /\ Handles({"memory"}, "get_tasks")
    /\ my_tasks' = [i \in 1..Len(my_tasks) |-> my_tasks[Len(my_tasks) + 1 - i]]
    /\ resp' = Response(HTTP_200_OK, my_tasks')
    /\ outcome' = "return"
    /\ pc' = "teardown"
    /\ UNCHANGED <<threads, variant, table, next_id, now, req, session, issued, deleted>>

main_get_tasks ==
    /\ Handles({"memory"}, "get_tasks")
    /\ resp' = Response(HTTP_200_OK, my_tasks)
    /\ outcome' = "return"
    /\ pc' = "teardown"
    /\ UNCHANGED <<threads, variant, my_tasks, table, next_id, now, req, session, issued, deleted>>

main_create_task ==
    /\ Handles({"memory"}, "create_task")
    /\ \E id \in RandomIds :
          LET task == MemoryTask(req.body, id) IN
          /\ my_tasks' = Append(my_tasks, task)
          /\ resp' = Response(HTTP_201_CREATED, <<task>>)
          /\ issued' = issued \cup {id}
    /\ outcome' = "return"
    /\ pc' = "teardown"
    /\ UNCHANGED <<threads, variant, table, next_id, now, req, session, deleted>>

main_delete_task ==
    /\ Handles({"memory"}, "delete_task")
    /\ LET r == main_delete_task_result(my_tasks, req.id) IN
          /\ my_tasks' = r.tasks
          /\ resp' = r.resp
          /\ outcome' = r.outcome
          /\ deleted' = IF r.outcome = "return" THEN deleted \cup {req.id} ELSE deleted
    /\ pc' = "teardown"
    /\ UNCHANGED <<threads, variant, table, next_id, now, req, session, issued>>

main_update_task ==
    /\ Handles({"memory"}, "update_task")
    /\ LET r == main_update_task_result(my_tasks, req.id, req.body) IN
          /\ my_tasks' = r.tasks
          /\ resp' = r.resp
          /\ outcome' = r.outcome
    /\ pc' = "teardown"
    /\ UNCHANGED <<threads, variant, table, next_id, now, req, session, issued, deleted>>

(* router.py of the relational variants *)

\* a database call raised: nothing is committed
Raised(rows) == [table |-> rows, resp |-> ServerError, outcome |-> "SQLAlchemyError"]

\* get_tasks: the query, then the rows through response_model=List[schemas.Task]
router_get_tasks_result(rows, limit, skip, search, fault) ==
    IF fault \/ ~LimitOffsetOk(limit, skip)
    THEN Raised(rows)
    ELSE LET tasks == LimitOffsetAll(Filter(rows, search), limit, skip) IN
         [table |-> rows,
          resp |-> Response(HTTP_200_OK, [i \in 1..Len(tasks) |-> SchemaTask(tasks[i])]),
          outcome |-> "return"]

\* get_task without its "if not task" check: None is returned as the task
router_get_task_result_NoCheck(v, rows, id, fault) ==
    IF fault THEN Raised(rows)
    ELSE [table |-> rows, resp |-> Response(HTTP_200_OK, <<first(rows, id)>>),
          outcome |-> "return"]

\* get_task
router_get_task_result(v, rows, id, fault) ==
    LET task == first(rows, id) IN
    IF fault THEN Raised(rows)
    ELSE IF task = NoRow
    THEN [table |-> rows, resp |-> RouterNotFound("Task with id: {id} not found", id),
          outcome |-> "HTTPException"]
    ELSE [table |-> rows, resp |-> Response(HTTP_200_OK, <<Returned(v, task)>>),
          outcome |-> "return"]

\* delete_task
router_delete_task_result(rows, id, fault) ==
    LET task == first(rows, id) IN
    IF fault THEN Raised(rows)
    ELSE IF task = NoRow
    THEN [table |-> rows, resp |-> RouterNotFound("Task with id: {id} does not exist", id),
          outcome |-> "HTTPException"]
    ELSE [table |-> DeleteRow(rows, id), resp |-> Response(HTTP_204_NO_CONTENT, <<>>),
          outcome |-> "return"]

\* update_task; the commit raises IntegrityError when a NOT NULL column is given None
router_update_task_result(rows, id, b, fault) ==
    LET task == first(rows, id) IN
    IF fault THEN Raised(rows)
    ELSE IF task = NoRow
    THEN [table |-> rows, resp |-> RouterNotFound("Task with id: {id} does not exist", id),
          outcome |-> "HTTPException"]
    ELSE LET updated == SetAttrs(task, b) IN
         IF ~NotNullOk(updated) THEN Raised(rows)
         ELSE [table |-> ReplaceRow(rows, updated),
               resp |-> Response(HTTP_200_OK, <<SchemaTask(updated)>>),
               outcome |-> "return"]

\* the session after the handler: a query begins a transaction, a commit ends
\* it, a failed call leaves it to be rolled back
AfterHandler(s, op, exc) ==
    [s EXCEPT !.in_txn = ~(op = "delete_task" /\ exc = "return")]

router_get_tasks ==
    /\ Handles(Relational, "get_tasks")
    /\ \E fault \in BOOLEAN :
          LET r == router_get_tasks_result(table, req.limit, req.skip, req.search, fault) IN
          /\ resp' = r.resp
          /\ outcome' = r.outcome
          /\ session' = AfterHandler(session, req.op, r.outcome)
    /\ pc' = "teardown"
    /\ UNCHANGED <<threads, variant, my_tasks, table, next_id, now, req, issued, deleted>>

\* the serial may or may not have advanced when the INSERT or the commit fails
router_create_task ==
    /\ Handles(Relational, "create_task")
    /\ \E fault \in BOOLEAN, consumed \in BOOLEAN :
          LET new_task == NewRow(req.body, next_id, now) IN
          IF fault \/ ~NotNullOk(new_task)
          THEN /\ resp' = ServerError
               /\ outcome' = "SQLAlchemyError"
               /\ next_id' = IF consumed THEN next_id + 1 ELSE next_id
               /\ UNCHANGED <<table, now, issued>>
          ELSE /\ table' = Append(table, new_task)
               /\ next_id' = next_id + 1
               /\ now' = now + 1
               /\ issued' = issued \cup {next_id}
               /\ resp' = Response(HTTP_201_CREATED, <<Returned(variant, new_task)>>)
               /\ outcome' = "return"
    /\ session' = AfterHandler(session, req.op, outcome')
    /\ pc' = "teardown"
    /\ UNCHANGED <<threads, variant, my_tasks, req, deleted>>

router_get_task ==
    /\ Handles(Relational, "get_task")
    /\ \E fault \in BOOLEAN :
          LET r == router_get_task_result(variant, table, req.id, fault) IN
          /\ resp' = r.resp
          /\ outcome' = r.outcome
          /\ session' = AfterHandler(session, req.op, r.outcome)
    /\ pc' = "teardown"
    /\ UNCHANGED <<threads, variant, my_tasks, table, next_id, now, req, issued, deleted>>

router_delete_task ==
    /\ Handles(Relational, "delete_task")
    /\ \E fault \in BOOLEAN :
          LET r == router_delete_task_result(table, req.id, fault) IN
          /\ table' = r.table
          /\ resp' = r.resp
          /\ outcome' = r.outcome
          /\ session' = AfterHandler(session, req.op, r.outcome)
          /\ deleted' = IF r.outcome = "return" THEN deleted \cup {req.id} ELSE deleted
    /\ pc' = "teardown"
    /\ UNCHANGED <<threads, variant, my_tasks, next_id, now, req, issued>>

router_update_task ==
    /\ Handles(Relational, "update_task")
    /\ \E fault \in BOOLEAN :
          LET r == router_update_task_result(table, req.id, req.body, fault) IN
          /\ table' = r.table
          /\ resp' = r.resp
          /\ outcome' = r.outcome
          /\ session' = AfterHandler(session, req.op, r.outcome)
    /\ pc' = "teardown"
    /\ UNCHANGED <<threads, variant, my_tasks, next_id, now, req, issued, deleted>>

\* The request ends: get_db runs from its yield to its end and the response is
\* sent.  An error of the handler that get_db swallows is raised again (or
\* replaced by an error of its own) by the framework: a server error either
\* way.  Whether a teardown that raises still lets the handler's response
\* through depends on the framework's version.
Finish ==
    /\ pc = "teardown"
    /\ IF variant = "memory"
       THEN UNCHANGED <<session, resp>>
       ELSE \E rollback_raises \in BOOLEAN, close_raises \in BOOLEAN :
               /\ session' = get_db(variant, session, outcome, rollback_raises, close_raises)
               /\ resp' \in IF session'.raised THEN {resp, ServerError}
                            ELSE IF Reraised(variant, outcome) THEN {resp}
                            ELSE {ServerError}
    /\ pc' = "done"
    /\ UNCHANGED <<threads, variant, my_tasks, table, next_id, now, req, outcome, issued, deleted>>

\* The objects of the finished request go out of scope; the store stays
Idle ==
    /\ pc = "done"
    /\ pc' = "idle"
    /\ req' = NoRequest
    /\ resp' = NoResp
    /\ outcome' = "none"
    /\ session' = NoSession
    /\ UNCHANGED <<threads, variant, my_tasks, table, next_id, now, issued, deleted>>

Next ==
    \/ Receive
    \/ ValidationError
    \/ main_get_tasks
    \/ main_create_task
    \/ main_delete_task
    \/ main_update_task
    \/ router_get_tasks
    \/ router_create_task
    \/ router_get_task
    \/ router_delete_task
    \/ router_update_task
    \/ Finish
    \/ Idle

Spec == Init /\ [][Next]_vars

-----------------------------------------------------------------------------
(* The in-memory variant with two requests in flight.  The handlers of       *)
(* src/fastapi/main.py are plain functions, run by worker threads that share *)
(* my_tasks without a lock; a thread may be preempted between                *)
(* find_post_index and the statement that uses the index it returned.        *)

\* the body of the creates and updates of this specification
ConcBodies == {Body(NameB, Unset, Test1, True)}

\* the threads after thread t took a step: t as given, and every other thread
\* that holds an index marked when the step changed my_tasks
AfterStep(t, thread, changed) ==
    [u \in Workers |->
        IF u = t THEN thread
        ELSE IF changed /\ threads[u].at = "found"
             THEN [threads[u] EXCEPT !.raced = TRUE]
             ELSE threads[u]]

ConcUnchanged ==
    UNCHANGED <<variant, table, next_id, now, pc, req, resp, outcome, session,
                issued, deleted>>

\* create_task: my_tasks.append(task) is one step
conc_create_task(t) ==
    /\ threads[t].at = "idle"
    /\ Len(my_tasks) < MaxLen
    /\ \E id \in RandomIds, b \in ConcBodies :
          /\ my_tasks' = Append(my_tasks, MemoryTask(b, id))
          /\ threads' = AfterStep(t, Thread("done", "create_task", id, NoIndex,
                                            "return", 0, FALSE), TRUE)
    /\ ConcUnchanged

\* delete_task and update_task up to "if index is None": index = find_post_index(id)
conc_find_post_index(t) ==
    /\ threads[t].at = "idle"
    /\ \E op \in {"delete_task", "update_task"}, id \in MemoryIds :
          LET index == find_post_index(my_tasks, id) IN
          threads' = AfterStep(t,
              IF index = NoIndex
              THEN Thread("done", op, id, index, "HTTPException", 0, FALSE)
              ELSE Thread("found", op, id, index, "none", 0, FALSE), FALSE)
    /\ UNCHANGED my_tasks
    /\ ConcUnchanged

\* delete_task from my_tasks.pop(index): IndexError when the list is too short now
conc_delete_task(t) ==
    LET th == threads[t] IN
    /\ th.at = "found"
    /\ th.op = "delete_task"
    /\ IF th.index > Len(my_tasks)
       THEN /\ UNCHANGED my_tasks
            /\ threads' = AfterStep(t, [th EXCEPT !.at = "done", !.result = "IndexError"], FALSE)
       ELSE /\ my_tasks' = Pop(my_tasks, th.index)
            /\ threads' = AfterStep(t, [th EXCEPT !.at = "done", !.result = "return",
                                                  !.victim = my_tasks[th.index].id], TRUE)
    /\ ConcUnchanged

\* update_task from my_tasks[index] = task: IndexError when the list is too short now
conc_update_task(t) ==
    LET th == threads[t] IN
    /\ th.at = "found"
    /\ th.op = "update_task"
    /\ IF th.index > Len(my_tasks)
       THEN /\ UNCHANGED my_tasks
            /\ threads' = AfterStep(t, [th EXCEPT !.at = "done", !.result = "IndexError"], FALSE)
       ELSE \E b \in ConcBodies :
            /\ my_tasks' = [my_tasks EXCEPT ![th.index] = MemoryTask(b, th.id)]
            /\ threads' = AfterStep(t, [th EXCEPT !.at = "done", !.result = "return",
                                                  !.victim = my_tasks[th.index].id],
                                    my_tasks' # my_tasks)
    /\ ConcUnchanged

\* the response is sent and the thread goes back to the pool
conc_return(t) ==
    /\ threads[t].at = "done"
    /\ threads' = AfterStep(t, NoThread, FALSE)
    /\ UNCHANGED my_tasks
    /\ ConcUnchanged

ConcInit == Init /\ variant = "memory"

ConcNext ==
    \E t \in Workers :
        \/ conc_create_task(t)
        \/ conc_find_post_index(t)
        \/ conc_delete_task(t)
        \/ conc_update_task(t)
        \/ conc_return(t)

ConcSpec == ConcInit /\ [][ConcNext]_vars

-----------------------------------------------------------------------------
(* Vocabulary of the claims *)

\* the records the variant stores
Store == IF variant = "memory" THEN my_tasks ELSE table

HasId(s, id) == \E i \in 1..Len(s) : s[i].id = id

\* the first record of s with this id
Stored(s, id) == s[CHOOSE i \in 1..Len(s) : s[i].id = id /\ \A j \in 1..(i - 1) : s[j].id # id]

UniqueIds(s) == \A i, j \in 1..Len(s) : i # j => s[i].id # s[j].id

\* the step in which the handler of operation op runs on a body that fits its model
\* (outcome' = "SQLAlchemyError" says that the database raised in it)
Handled(op) == pc = "handler" /\ pc' = "teardown" /\ req.op = op /\ ValidBody(variant, req)

\* the fields of a stored record an update body may name
BodyFields(record) == DOMAIN record \ {"id", "created_at"}

\* sub occurs in s as a run of consecutive characters
IsSubstring(sub, s) ==
    \E i \in 0..(Len(s) - Len(sub)) : SubSeq(s, i + 1, i + Len(sub)) = sub

\* after is before without one record, and that record has this id
RemovedOne(before, after, id) ==
    \E i \in 1..Len(before) :
        /\ before[i].id = id
        /\ after = SubSeq(before, 1, i - 1) \o SubSeq(before, i + 1, Len(before))

-----------------------------------------------------------------------------
(* C1: update is a merge.  In every variant, after a successful update_task  *)
(* each field the body supplies holds the supplied value and each field the   *)
(* body omits keeps the value the stored record had before (a key the stored  *)
(* record did not have is left out of the comparison).                        *)
C1_UpdateIsMerge ==
    [][ (Handled("update_task") /\ resp'.status = HTTP_200_OK) =>
          LET old == Stored(Store, req.id)
              new == Stored(Store', req.id)
          IN \A k \in BodyFields(old) :
                IF req.body[k] # Unset THEN new[k] = req.body[k]
                ELSE old[k] # Unset => new[k] = old[k] ]_vars

(* C2: ids are unique.  No two live records share an id, and the id a         *)
(* successful create returns differs from the id of every earlier create.     *)
C2_IdsUnique ==
    [][ /\ UniqueIds(Store')
        /\ (Handled("create_task") /\ resp'.status = HTTP_201_CREATED) =>
              resp'.data[1].id \notin issued ]_vars

(* C3: retrieve, update and delete on an id that no stored record has end in   *)
(* HTTPException 404 whose detail names the requested id, whenever the         *)
(* database answers the lookup; the response sent is that one unless the       *)
(* teardown of the session itself raises.                                      *)
C3_NotFound ==
    [][ /\ ((\E op \in ByIdOps : Handled(op)) /\ ~HasId(Store, req.id)
              /\ outcome' # "SQLAlchemyError") =>
              /\ outcome' = "HTTPException"
              /\ resp'.status = HTTP_404_NOT_FOUND
              /\ resp'.detail.id = req.id
              /\ resp'.data = <<>>
              /\ Store' = Store
        /\ (pc = "teardown" /\ pc' = "done" /\ ~session'.raised) => resp' = resp ]_vars

C3_Witness ==
    /\ pc = "done"
    /\ variant \in Relational
    /\ req.op = "update_task"
    /\ table # <<>>
    /\ ~HasId(table, req.id)
    /\ resp.status = HTTP_404_NOT_FOUND
    /\ resp.detail.id = req.id

(* C4: once delete_task has succeeded for an id, every later retrieve, update  *)
(* or delete of that id that the database answers ends in not-found.           *)
C4_DeletedStaysNotFound ==
    [][ ((\E op \in ByIdOps : Handled(op)) /\ req.id \in deleted
           /\ outcome' # "SQLAlchemyError") =>
           resp'.status = HTTP_404_NOT_FOUND ]_vars

(* C5: a delete of an existing id that the database carries out answers 204    *)
(* with an empty body and removes one record, which has that id: the store     *)
(* afterwards is the store before without it, every other record as it was.    *)
C5_DeleteRemovesOne ==
    [][ Handled("delete_task") =>
          /\ (HasId(Store, req.id) /\ outcome' # "SQLAlchemyError") =>
                resp'.status = HTTP_204_NO_CONTENT
          /\ resp'.status = HTTP_204_NO_CONTENT =>
                /\ resp'.data = <<>>
                /\ resp'.detail = NoDetail
                /\ RemovedOne(Store, Store', req.id) ]_vars

C5_Witness ==
    /\ pc = "done"
    /\ req.op = "delete_task"
    /\ resp.status = HTTP_204_NO_CONTENT
    /\ Len(Store) >= 1
    /\ req.id \in deleted
    /\ ~HasId(Store, req.id)

(* C6: get_tasks returns, in storage order, the tasks whose name contains      *)
(* search as a substring, without the first skip of them and at most limit of  *)
(* the rest.                                                                   *)
C6_ListIsSubstringPage ==
    (pc = "teardown" /\ variant \in Relational /\ req.op = "get_tasks"
       /\ outcome = "return") =>
        LET matches == SelectSeq(table, LAMBDA r : IsSubstring(req.search, r.name))
            rest == IF Len(matches) > req.skip THEN Len(matches) - req.skip ELSE 0
            n == IF req.limit < rest THEN req.limit ELSE rest
        IN /\ resp.status = HTTP_200_OK
           /\ Len(resp.data) = n
           /\ \A i \in 1..n :
                 /\ resp.data[i].id = matches[req.skip + i].id
                 /\ resp.data[i].name = matches[req.skip + i].name
                 /\ resp.data[i].description = matches[req.skip + i].description
                 /\ resp.data[i].completed = matches[req.skip + i].completed

(* C7: a create with a valid body that the database carries out answers 201    *)
(* with the stored record: the supplied name and description, description      *)
(* null and completed false where not supplied, and the id the backend         *)
(* assigned; the record is appended to the store and retrieve on its id        *)
(* returns it.                                                                 *)
C7_CreateReturnsStored ==
    [][ Handled("create_task") =>
          /\ outcome' # "SQLAlchemyError" => resp'.status = HTTP_201_CREATED
          /\ resp'.status = HTTP_201_CREATED =>
                LET r == resp'.data[1]
                    b == req.body
                    last == Store'[Len(Store')]
                IN /\ Len(resp'.data) = 1
                   /\ r.name = b.name
                   /\ r.completed = IF b.completed = Unset THEN False ELSE b.completed
                   /\ Len(Store') = Len(Store) + 1
                   /\ SubSeq(Store', 1, Len(Store)) = Store
                   /\ \A k \in DOMAIN r : last[k] = r[k]
                   /\ variant \in Relational =>
                         /\ r.description = IF b.description = Unset THEN None
                                            ELSE b.description
                         /\ r.id = next_id
                         /\ first(table', r.id) = last
                         /\ router_get_task_result(variant, table', r.id, FALSE).resp
                               = Response(HTTP_200_OK, <<r>>) ]_vars

C7_Witness ==
    /\ pc = "done"
    /\ variant = "testcases"
    /\ req.op = "create_task"
    /\ req.body.description = Unset
    /\ req.body.completed = Unset
    /\ resp.status = HTTP_201_CREATED
    /\ resp.data[1].description = None
    /\ resp.data[1].completed = False
    /\ resp.data[1].id = 2
    /\ Len(table) = 2

\* the bodies the claim names: no name on a create, or a field of the wrong type
Malformed(v, r) ==
    \/ r.op = "create_task" /\ r.body.name = Unset
    \/ /\ r.op \in {"create_task", "update_task"}
       /\ \E k \in {"name", "completed", IF v = "memory" THEN "task" ELSE "description"} :
             r.body[k] = Object

(* C8: a create or update whose body fails validation is answered 422 without  *)
(* the handler or any storage operation having run: the store, the serial and  *)
(* the session's transaction are as before.                                    *)
C8_InvalidBodyRejected ==
    [][ (pc = "handler" /\ pc' = "teardown" /\ Malformed(variant, req)) =>
          /\ outcome' = "RequestValidationError"
          /\ resp'.status = 422
          /\ Store' = Store
          /\ next_id' = next_id
          /\ ~session'.in_txn ]_vars

C8_Witness ==
    /\ pc = "done"
    /\ variant \in Relational
    /\ req.op = "create_task"
    /\ req.body.name = Unset
    /\ outcome = "RequestValidationError"
    /\ resp.status = 422
    /\ table # <<>>

(* C9: every request that acquired a session through get_db has called         *)
(* db.close() exactly once when it is finished, whatever the handler's         *)
(* outcome, and not before; the session is then closed unless close() (or the  *)
(* rollback before it) itself raised.                                          *)
C9_SessionClosedOnce ==
    variant \in Relational =>
        /\ pc \in {"handler", "teardown"} => session.open /\ session.close_calls = 0
        /\ pc = "done" => session.close_calls = 1 /\ (session.open => session.raised)

C9_Witness ==
    /\ pc = "done"
    /\ variant = "testcases"
    /\ outcome = "SQLAlchemyError"
    /\ session.close_calls = 1
    /\ ~session.open

C11_NameAndCompletedDefined ==
    \A i \in 1..Len(Store) : IsStr(Store[i].name) /\ IsBool(Store[i].completed)

\* the id, and the created_at where the variant stores one, of each record of s
Identity(s) ==
    [i \in 1..Len(s) |->
        IF "created_at" \in DOMAIN s[i]
        THEN <<s[i].id, s[i].created_at>> ELSE <<s[i].id>>]

(* C12: id and created_at never change after creation.  For every update body, *)
(* one that carries an id key or a created_at key included, update_task leaves *)
(* the id and the created_at of every stored record as they were, and the      *)
(* record a successful update returns has the id of the request path (with the *)
(* created_at the record had, where the response carries one).                 *)
C12_IdAndCreatedAtKept ==
    [][ Handled("update_task") =>
          /\ Identity(Store') = Identity(Store)
          /\ resp'.status = HTTP_200_OK =>
                LET returned == resp'.data[1] IN
                /\ returned.id = req.id
                /\ Stored(Store', req.id).id = req.id
                /\ "created_at" \in DOMAIN returned =>
                      returned.created_at = Stored(Store, req.id).created_at ]_vars

C12_Witness ==
    /\ pc = "done"
    /\ variant \in Relational
    /\ req.op = "update_task"
    /\ resp.status = HTTP_200_OK
    /\ req.body.id \notin {0, req.id}
    /\ HasId(table, req.body.id)
    /\ req.body.created_at # 0
    /\ Stored(table, req.id).created_at # req.body.created_at
    /\ Stored(table, req.id).name = req.body.name

\* the step in which get_tasks runs and the database answers its query as the
\* values it is given make it answer (no failure of the connection)
ListAnswered ==
    /\ Handled("get_tasks")
    /\ variant \in Relational =>
          resp' = router_get_tasks_result(table, req.limit, req.skip, req.search, FALSE).resp

(* C13: list has no error outcome.  For every limit, skip and search that pass *)
(* request validation (any integers, any string), get_tasks ends with success  *)
(* whenever the database is there to answer, and the sequence it returns is    *)
(* empty when no stored task matches or when skip is at or past the number of  *)
(* matches.                                                                    *)
C13_ListNeverFails ==
    [][ ListAnswered =>
          /\ outcome' = "return"
          /\ resp'.status = HTTP_200_OK
          /\ (variant \in Relational /\ req.skip >= Len(Filter(table, req.search))) =>
                resp'.data = <<>> ]_vars

\* thread t takes the step that uses the index find_post_index gave it
Applies(t) == threads[t].at = "found" /\ threads'[t].at = "done"

\* the handler ended on a record that is not the requested one, or on no record
Misapplied(thread) ==
    \/ thread.result = "IndexError"
    \/ thread.result = "return" /\ thread.victim # thread.id

(* C14: the in-memory variant is not safe under concurrent mutation.  With two *)
(* requests in flight, a delete or update that has computed its index with     *)
(* find_post_index removes or overwrites a record whose id is not the          *)
(* requested id, or fails with an IndexError, in some interleaving             *)
(* (C14_Witness is such a state); it does so only when another request changed *)
(* my_tasks between its find_post_index and its pop or assignment: a handler   *)
(* whose index is still fresh acts on the record with the requested id, and a  *)
(* failed pop or assignment leaves the list as it was.                         *)
C14_UnsafeWhenInterleaved ==
    [][ \A t \in Workers : Applies(t) =>
          /\ Misapplied(threads'[t]) => threads[t].raced
          /\ ~threads[t].raced =>
                /\ threads'[t].result = "return"
                /\ threads'[t].victim = threads[t].id
                /\ my_tasks[threads[t].index].id = threads[t].id
          /\ threads'[t].result = "IndexError" => my_tasks' = my_tasks ]_vars

\* a delete has removed a record whose id is not the one it was asked to delete
C14_Witness ==
    \E t \in Workers :
        /\ threads[t].at = "done"
        /\ threads[t].op = "delete_task"
        /\ threads[t].result = "return"
        /\ threads[t].victim \notin {0, threads[t].id}
        /\ ~HasId(my_tasks, threads[t].victim)
        /\ HasId(my_tasks, threads[t].id)

(* C15: an update or delete that ends in not-found changes nothing.  When no   *)
(* stored record has the requested id, and whenever the answer is 404, the     *)
(* store after the handler is the store before it (same records, same fields,  *)
(* same order and length), no id or timestamp is used up, and the transaction  *)
(* of the session is left uncommitted; the rest of the request leaves the      *)
(* store alone too.                                                            *)
C15_NotFoundChangesNothing ==
    [][ /\ ((Handled("update_task") \/ Handled("delete_task"))
              /\ (~HasId(Store, req.id) \/ resp'.status = HTTP_404_NOT_FOUND)) =>
              /\ Store' = Store
              /\ my_tasks' = my_tasks /\ table' = table
              /\ next_id' = next_id /\ now' = now
              /\ issued' = issued /\ deleted' = deleted
              /\ variant \in Relational => session'.in_txn
        /\ (pc \in {"teardown", "done"} /\ resp.status = HTTP_404_NOT_FOUND) =>
              Store' = Store ]_vars

C15_Witness ==
    /\ pc = "teardown"
    /\ variant = "postgresql"
    /\ req.op = "delete_task"
    /\ resp.status = HTTP_404_NOT_FOUND
    /\ Len(table) = MaxCreates
    /\ ~HasId(table, req.id)
    /\ session.in_txn
    /\ deleted = {}

\* the position in s of the first record with this id
FirstAt(s, id) == CHOOSE i \in 1..Len(s) : s[i].id = id /\ \A j \in 1..(i - 1) : s[j].id # id

(* C16: the in-memory variant, one request at a time.  A successful create     *)
(* makes my_tasks longer by exactly one, the new record last and the earlier   *)
(* entries as they were.  A delete or update succeeds exactly when a record    *)
(* has the requested id, the record at index 0 included.  A successful delete  *)
(* makes my_tasks shorter by exactly one: the first record with the requested  *)
(* id is gone, the others keep their order.  A successful update leaves the    *)
(* length as it was and replaces the first record with the requested id at     *)
(* its position, every other entry as it was.                                  *)
C16_MemoryListEffects ==
    [][ variant = "memory" =>
          LET n == Len(my_tasks) IN
          /\ (Handled("create_task") /\ resp'.status = HTTP_201_CREATED) =>
                /\ Len(my_tasks') = n + 1
                /\ SubSeq(my_tasks', 1, n) = my_tasks
                /\ my_tasks'[n + 1] = resp'.data[1]
          /\ Handled("delete_task") =>
                /\ resp'.status = HTTP_204_NO_CONTENT <=> HasId(my_tasks, req.id)
                /\ resp'.status = HTTP_204_NO_CONTENT =>
                      LET at == FirstAt(my_tasks, req.id) IN
                      /\ Len(my_tasks') = n - 1
                      /\ my_tasks' = SubSeq(my_tasks, 1, at - 1) \o SubSeq(my_tasks, at + 1, n)
          /\ Handled("update_task") =>
                /\ resp'.status = HTTP_200_OK <=> HasId(my_tasks, req.id)
                /\ resp'.status = HTTP_200_OK =>
                      LET at == FirstAt(my_tasks, req.id) IN
                      /\ Len(my_tasks') = n
                      /\ my_tasks'[at] = resp'.data[1]
                      /\ my_tasks'[at].id = req.id
                      /\ \A i \in 1..n : i # at => my_tasks'[i] = my_tasks[i]
          /\ ((Handled("delete_task") \/ Handled("update_task"))
                /\ n > 0 /\ my_tasks[1].id = req.id) =>
                resp'.status # HTTP_404_NOT_FOUND ]_vars

C16_Witness ==
    /\ pc = "teardown"
    /\ variant = "memory"
    /\ req.op = "update_task"
    /\ resp.status = HTTP_200_OK
    /\ Len(my_tasks) = MaxLen
    /\ my_tasks[1].id = req.id
    /\ my_tasks[1] = resp.data[1]
    /\ my_tasks[1].completed = True

ReadOps == {"get_tasks", "get_task"}

(* C17: list and retrieve-by-id are read-only.  The handler of get_tasks and   *)
(* of get_task, whether it ends in success, in not-found or in a database      *)
(* error, and every other step of such a request, leaves the stored records,   *)
(* the id sequence, the clock and the history of creates and deletes as they   *)
(* were: everything a later operation's result depends on.                     *)
C17_ReadsChangeNothing ==
    [][ (req.op \in ReadOps \/ req'.op \in ReadOps) =>
          /\ my_tasks' = my_tasks
          /\ table' = table
          /\ next_id' = next_id
          /\ now' = now
          /\ issued' = issued
          /\ deleted' = deleted ]_vars

C17_Witness ==
    /\ pc = "done"
    /\ variant = "testcases"
    /\ req.op = "get_task"
    /\ resp.status = HTTP_404_NOT_FOUND
    /\ outcome = "HTTPException"
    /\ Len(table) = MaxCreates
    /\ session.close_calls = 1

=============================================================================
